---- MODULE Spec2Model ----
(***************************************************************************)
(* ExternalAcks (src/infrastructure/external_ack.rs): the tracker of the   *)
(* sequence numbers received from the other side of a virtual connection.  *)
(*                                                                         *)
(* last_seq is a u16, kept as a number in 0..65535.  field is a u32; it is *)
(* kept as the set of the positions (0 = least significant) of its set     *)
(* bits, because 2^32 - 1 is no TLC integer.  FieldLo and FieldHi read the *)
(* two 16-bit halves of its value back as numbers.                         *)
(***************************************************************************)
EXTENDS Integers, FiniteSets, Sequences, TLC

VARIABLES
    last_seq,      \* ExternalAcks::last_seq
    field,         \* ExternalAcks::field, as the set of its set bit positions
    initialized,   \* ExternalAcks::initialized
    seq_num,       \* the argument of the latest ack call
    prev_seq,      \* the argument of the ack call before the latest
    pre,           \* the struct as it was when the latest ack call began
    calls,         \* the number of ack calls made
    seen,          \* every sequence number passed to ack so far
    live,          \* those of seen that stayed within the window ever since
    twin,          \* a second instance, fed the same calls moved by shift
    shift,         \* the offset of the twin's sequence numbers
    start,         \* the first number of a consecutive run
    chosen,        \* the set of numbers a permutation run delivers
    todo,          \* the members of chosen not yet delivered
    stream         \* the next number of a consecutive stream ({} if none)

core == <<last_seq, field, initialized, seq_num, prev_seq, pre, calls, seen,
          live>>
aux  == <<twin, shift, start, chosen, todo, stream>>
vars == <<last_seq, field, initialized, seq_num, prev_seq, pre, calls, seen,
          live, twin, shift, start, chosen, todo, stream>>

----------------------------------------------------------------------------
(* Bounds of the exploration *)

\* ack calls per behaviour of Spec
MaxCalls == 5
\* ack calls per behaviour of SpecRun
MaxRun == 40
\* ack calls per behaviour of SpecTwin
MaxTwinCalls == 4
\* members of a set delivered by SpecPerm
MaxSet == 4
\* the value at which SpecStream stops counting the calls
StreamCap == 3

----------------------------------------------------------------------------
(* The integer types *)

\* the number of u16 values
U16 == 65536
\* the number of bits of a u32
U32Bits == 32

SeqNums == 0 .. (U16 - 1)
BitPos  == 0 .. (U32Bits - 1)

\* u16::wrapping_sub, non-wrapping: the slip of subtracting in a wider type
wrapping_sub_saturating(a, b) == IF a >= b THEN a - b ELSE 0

\* u16::wrapping_sub
wrapping_sub(a, b) == (a + U16 - b) % U16

\* u16 addition of a test offset, wrapping
wrapping_add(a, b) == (a + b) % U16

\* the u32 literals 0 and 1
Zero == {}
One  == {0}

\* u32 << n: the bits move up by n and those moved past bit 31 are dropped
\* (n is taken modulo 32, as a release build does; ack only shifts by 0..31)
Shl(x, n) == {i + (n % U32Bits) : i \in x} \cap BitPos

\* u32 | u32
BitOr(x, y) == x \cup y

Pow2(n) == 2 ^ n

\* what bit i of x adds to the 16-bit half it lies in
BitValue(x, i) == IF i \in x THEN Pow2(i % 16) ELSE 0

\* the value of bits 0..15 and of bits 16..31 of a u32
FieldLo(x) ==
    BitValue(x, 0) + BitValue(x, 1) + BitValue(x, 2) + BitValue(x, 3)
    + BitValue(x, 4) + BitValue(x, 5) + BitValue(x, 6) + BitValue(x, 7)
    + BitValue(x, 8) + BitValue(x, 9) + BitValue(x, 10) + BitValue(x, 11)
    + BitValue(x, 12) + BitValue(x, 13) + BitValue(x, 14) + BitValue(x, 15)
FieldHi(x) ==
    BitValue(x, 16) + BitValue(x, 17) + BitValue(x, 18) + BitValue(x, 19)
    + BitValue(x, 20) + BitValue(x, 21) + BitValue(x, 22) + BitValue(x, 23)
    + BitValue(x, 24) + BitValue(x, 25) + BitValue(x, 26) + BitValue(x, 27)
    + BitValue(x, 28) + BitValue(x, 29) + BitValue(x, 30) + BitValue(x, 31)

----------------------------------------------------------------------------
(* ExternalAcks *)

\* #[derive(Default)]
Default == [last_seq |-> 0, field |-> Zero, initialized |-> FALSE]

\* the first call, the assignment of last_seq left out
first_ack_keeps_last_seq(self, seq) == [self EXCEPT !.initialized = TRUE]

\* the first call, `self.initialized = true` left out
first_ack_stays_uninitialized(self, seq) == [self EXCEPT !.last_seq = seq]

\* the first call: line 20-21
first_ack(self, seq) == [self EXCEPT !.last_seq = seq, !.initialized = TRUE]

\* line 32 with the half of the number space for 32000
is_new_half(pos_diff) == pos_diff < 32768

\* line 32
is_new(pos_diff) == pos_diff < 32000

\* line 37 without the `| 1`: the old last_seq is not recorded
push_back_no_one(f, pos_diff) == Shl(Shl(f, 1), pos_diff - 1)

\* line 37 with the `| 1` applied after the whole shift
push_back_one_last(f, pos_diff) == BitOr(Shl(f, pos_diff), One)

\* line 37 shifting by pos_diff instead of pos_diff - 1
push_back_one_more(f, pos_diff) == Shl(BitOr(Shl(f, 1), One), pos_diff)

\* line 37
push_back(f, pos_diff) == Shl(BitOr(Shl(f, 1), One), pos_diff - 1)

\* lines 34-40 with the history kept on a jump past the window
new_field_no_reset(f, pos_diff) ==
    IF pos_diff <= 32 THEN push_back(f, pos_diff) ELSE f

\* lines 34-40
new_field(f, pos_diff) ==
    IF pos_diff <= 32 THEN push_back(f, pos_diff) ELSE Zero

\* line 43 with the window one too wide
is_old_in_window_33(neg_diff) == neg_diff <= 33

\* line 43
is_old_in_window(neg_diff) == neg_diff <= 32

\* line 45 with `=` for `|=`: the bits already set are lost
old_field_assign(f, neg_diff) == Shl(One, neg_diff - 1)

\* line 45 with `^=` for `|=`: a second arrival clears the bit
old_field_toggle(f, neg_diff) ==
    (f \ Shl(One, neg_diff - 1)) \cup (Shl(One, neg_diff - 1) \ f)

\* line 45 shifting by neg_diff instead of neg_diff - 1
old_field_one_more(f, neg_diff) == BitOr(f, Shl(One, neg_diff))

\* line 45
old_field(f, neg_diff) == BitOr(f, Shl(One, neg_diff - 1))

\* ExternalAcks::ack, as a function from the struct and the argument to the
\* struct after the call
ack(self, seq) ==
    IF ~self.initialized THEN first_ack(self, seq)
    ELSE LET pos_diff == wrapping_sub(seq, self.last_seq)
             neg_diff == wrapping_sub(self.last_seq, seq)
         IN  IF pos_diff = 0 THEN self
             ELSE IF is_new(pos_diff)
                  THEN [self EXCEPT !.field = new_field(self.field, pos_diff),
                                    !.last_seq = seq]
             ELSE IF is_old_in_window(neg_diff)
                  THEN [self EXCEPT !.field = old_field(self.field, neg_diff)]
             ELSE self

\* the call evaluates line 37, and the call evaluates line 45
reaches_push_back(self, seq) ==
    /\ self.initialized
    /\ wrapping_sub(seq, self.last_seq) # 0
    /\ is_new(wrapping_sub(seq, self.last_seq))
    /\ wrapping_sub(seq, self.last_seq) <= 32

reaches_old_field(self, seq) ==
    /\ self.initialized
    /\ wrapping_sub(seq, self.last_seq) # 0
    /\ ~is_new(wrapping_sub(seq, self.last_seq))
    /\ is_old_in_window(wrapping_sub(self.last_seq, seq))

\* `n - 1` on a u16 underflows, and `<< n` on a u32 overflows (a panic in a
\* debug build, a wrapped result in a release build)
sub_one_underflows(n) == n < 1
shl_overflows(n) == n < 0 \/ n >= U32Bits

\* the call ack(seq) meets an arithmetic overflow at line 37 or line 45
ack_overflows(self, seq) ==
    \/ /\ reaches_push_back(self, seq)
       /\ \/ sub_one_underflows(wrapping_sub(seq, self.last_seq))
          \/ shl_overflows(wrapping_sub(seq, self.last_seq) - 1)
          \/ shl_overflows(1)
    \/ /\ reaches_old_field(self, seq)
       /\ \/ sub_one_underflows(wrapping_sub(self.last_seq, seq))
          \/ shl_overflows(wrapping_sub(self.last_seq, seq) - 1)

Self == [last_seq |-> last_seq, field |-> field, initialized |-> initialized]

\* one call acks.ack(seq) on the instance, with the bookkeeping of what was
\* passed
Call(seq) ==
    LET post == ack(Self, seq)
    IN  /\ last_seq' = post.last_seq
        /\ field' = post.field
        /\ initialized' = post.initialized
        /\ seq_num' = seq
        /\ prev_seq' = seq_num
        /\ pre' = Self
        /\ calls' = calls + 1
        /\ seen' = seen \cup {seq}
        /\ live' = {v \in live \cup {seq} :
                        (post.last_seq + U16 - v) % U16 <= U32Bits}

InitCore ==
    /\ last_seq = Default.last_seq
    /\ field = Default.field
    /\ initialized = Default.initialized
    /\ seq_num = 0
    /\ prev_seq = 0
    /\ pre = Default
    /\ calls = 0
    /\ seen = {}
    /\ live = {}

InitAux ==
    /\ twin = Default
    /\ shift = 0
    /\ start = 0
    /\ chosen = {}
    /\ todo = {}
    /\ stream = {}

----------------------------------------------------------------------------
(* Spec: any caller.  The first number is one of Starts; every later one   *)
(* lies at one of Deltas ahead of last_seq (modulo 65536), which covers    *)
(* each branch of ack and both sides of each of its thresholds.            *)

Starts == {0, 33, 65520}
Deltas == {0, 1, 2, 31, 32, 33, 31999, 32000, 65503, 65504, 65535}

Inputs == IF calls = 0 THEN Starts
          ELSE {wrapping_add(last_seq, d) : d \in Deltas}

Ack ==
    /\ calls < MaxCalls
    /\ \E seq \in Inputs : Call(seq)
    /\ UNCHANGED aux

Init == InitCore /\ InitAux

Next == Ack

Spec == Init /\ [][Next]_vars

----------------------------------------------------------------------------
(* SpecFresh: the first call on a default instance, with every u16.        *)

FreshAck ==
    /\ calls = 0
    /\ \E seq \in SeqNums : Call(seq)
    /\ UNCHANGED aux

NextFresh == FreshAck

SpecFresh == Init /\ [][NextFresh]_vars

----------------------------------------------------------------------------
(* SpecTwin: two default instances; the twin is given every number of the  *)
(* first moved by shift, modulo 65536.                                     *)

Shifts == {1, 16, 32768, 65520}

InitTwin ==
    /\ InitCore
    /\ twin = Default
    /\ shift \in Shifts
    /\ start = 0
    /\ chosen = {}
    /\ todo = {}
    /\ stream = {}

TwinAck ==
    /\ calls < MaxTwinCalls
    /\ \E seq \in Inputs :
          /\ Call(seq)
          /\ twin' = ack(twin, wrapping_add(seq, shift))
    /\ UNCHANGED <<shift, start, chosen, todo, stream>>

NextTwin == TwinAck

SpecTwin == InitTwin /\ [][NextTwin]_vars

----------------------------------------------------------------------------
(* SpecRun: the loop `for i in 0..n { acks.ack(i) }` of the tests, begun   *)
(* at start (the tests begin at 0 and at 0.wrapping_sub(16)).              *)

RunStarts == {0, 100, 65520, 65535}

InitRun ==
    /\ InitCore
    /\ twin = Default
    /\ shift = 0
    /\ start \in RunStarts
    /\ chosen = {}
    /\ todo = {}
    /\ stream = {}

RunAck ==
    /\ calls < MaxRun
    /\ Call(wrapping_add(start, calls))
    /\ UNCHANGED aux

NextRun == RunAck

SpecRun == InitRun /\ [][NextRun]_vars

----------------------------------------------------------------------------
(* SpecPerm: a set of distinct numbers that fits the window (its greatest  *)
(* member, in wrapping order, is at most 32 ahead of every other) is       *)
(* delivered to a default instance in any order.                           *)

PermBases == {0, 65520}
PermOffsets == {0, 1, 2, 16, 31, 32, 33}
Candidates == {wrapping_add(b, o) : b \in PermBases, o \in PermOffsets}

\* how far v lies behind m, modulo 65536
Behind(m, v) == (m + U16 - v) % U16

FitsWindow(S) == \E m \in S : \A v \in S : Behind(m, v) <= 32

PermSets == {S \in SUBSET Candidates :
                S # {} /\ Cardinality(S) <= MaxSet /\ FitsWindow(S)}

InitPerm ==
    /\ InitCore
    /\ twin = Default
    /\ shift = 0
    /\ start = 0
    /\ chosen \in PermSets
    /\ todo = chosen
    /\ stream = {}

PermAck ==
    /\ todo # {}
    /\ \E v \in todo :
          /\ Call(v)
          /\ todo' = todo \ {v}
    /\ UNCHANGED <<twin, shift, start, chosen, stream>>

NextPerm == PermAck

SpecPerm == InitPerm /\ [][NextPerm]_vars

----------------------------------------------------------------------------
(* SpecStream: after a first call, the caller gives the consecutive        *)
(* numbers s, s+1, s+2, ... (modulo 65536) for ever, s lying at one of     *)
(* StreamDeltas ahead of last_seq.  The caller never stops, which is the   *)
(* weak fairness of the specification.  calls counts up to StreamCap only  *)
(* and the numbers of the stream are not added to seen and live, so that   *)
(* the states are finitely many.                                           *)

StreamLasts == {0, 65520}
StreamDeltas == {1, 33, 31999, 32000, 65503}

StreamFirst ==
    /\ calls = 0
    /\ \E seq \in StreamLasts : Call(seq)
    /\ UNCHANGED aux

StreamBegin ==
    /\ calls = 1
    /\ stream = {}
    /\ \E d \in StreamDeltas : stream' = {wrapping_add(last_seq, d)}
    /\ UNCHANGED <<core, twin, shift, start, chosen, todo>>

StreamAck ==
    /\ stream # {}
    /\ \E seq \in stream :
          LET post == ack(Self, seq)
          IN  /\ last_seq' = post.last_seq
              /\ field' = post.field
              /\ initialized' = post.initialized
              /\ seq_num' = seq
              /\ prev_seq' = seq_num
              /\ pre' = Self
              /\ stream' = {wrapping_add(seq, 1)}
    /\ calls' = IF calls < StreamCap THEN calls + 1 ELSE calls
    /\ UNCHANGED <<seen, live, twin, shift, start, chosen, todo>>

NextStream == StreamFirst \/ StreamBegin \/ StreamAck

SpecStream == Init /\ [][NextStream]_vars /\ WF_vars(NextStream)

----------------------------------------------------------------------------
(* What the latest call was given, relative to the struct it began with *)

\* (seq_num - last_seq) mod 65536 and (last_seq - seq_num) mod 65536 of the
\* latest call
PosDiff == (seq_num + 65536 - pre.last_seq) % 65536
NegDiff == (pre.last_seq + 65536 - seq_num) % 65536

\* the latest call was made on an initialized instance
Stepped == calls >= 1 /\ pre.initialized

\* the sequence number bit i of field stands for
SeqOfBit(i) == (last_seq + 65536 - (i + 1)) % 65536

\* a u32 as the pair <<high half, low half>> of numbers, and its arithmetic
U32Of(x) == <<FieldHi(x), FieldLo(x)>>
Double(w) == <<(2 * w[1] + (w[2] \div 32768)) % 65536, (2 * w[2]) % 65536>>
\* w * 2^n modulo 2^32, for n in 0..31
TimesPow2(w, n) ==
    IF n < 16
    THEN <<(((w[1] * Pow2(n)) % 65536) + ((w[2] * Pow2(n)) \div 65536)) % 65536,
           (w[2] * Pow2(n)) % 65536>>
    ELSE <<(w[2] * Pow2(n - 16)) % 65536, 0>>
\* ((w << 1) | 1) << n, modulo 2^32
ShiftedIn(w, n) == LET d == Double(w) IN TimesPow2(<<d[1], d[2] + 1>>, n)

----------------------------------------------------------------------------
(* C1 *)

\* C1, as stated: once a call was made, bit i of field is set if and only
\* if the number (last_seq - (i+1)) mod 65536 was passed to an earlier call.
C1_BitIffSeen ==
    calls >= 1 => \A i \in BitPos : (i \in field) <=> (SeqOfBit(i) \in seen)

\* C1, amended: once a call was made, bit i of field is set if and only if
\* the number (last_seq - (i+1)) mod 65536 was passed to an earlier call and
\* was at most 32 behind last_seq (modulo 65536) after that call and after
\* every call since; last_seq itself is such a number.
C1_BitIffLive ==
    calls >= 1 =>
        /\ last_seq \in live
        /\ \A i \in BitPos : (i \in field) <=> (SeqOfBit(i) \in live)

\* a bit is set, and a clear bit stands for a number that was passed to ack
\* but fell out of (or never was in) the window
C1_Witness ==
    /\ calls >= 1
    /\ field # {}
    /\ \E i \in BitPos : i \notin field /\ SeqOfBit(i) \in seen \ live

----------------------------------------------------------------------------
(* C2 *)

\* C2: a call with pos_diff in 1..32 on an initialized instance sets
\* last_seq to seq; bit pos_diff-1 of the new field is set, the bits below
\* it are clear, old bit i is at i+pos_diff when that is at most 31 and is
\* dropped otherwise; the new field is (((old << 1) | 1) << (pos_diff-1))
\* mod 2^32, and is 1 << 31 when pos_diff is 32.
C2_ForwardShift ==
    (Stepped /\ PosDiff \in 1..32) =>
        /\ last_seq = seq_num
        /\ (PosDiff - 1) \in field
        /\ \A i \in BitPos : i < PosDiff - 1 => i \notin field
        /\ \A i \in BitPos :
              i + PosDiff <= 31 => ((i + PosDiff \in field) <=> (i \in pre.field))
        /\ field \subseteq BitPos
        /\ U32Of(field) = ShiftedIn(U32Of(pre.field), PosDiff - 1)
        /\ PosDiff = 32 => U32Of(field) = <<32768, 0>>
        /\ initialized

\* a forward shift by 2..31 that keeps one old bit and drops another
C2_Witness ==
    /\ Stepped
    /\ PosDiff \in 2..31
    /\ \E i, j \in pre.field : i + PosDiff <= 31 /\ j + PosDiff > 31

----------------------------------------------------------------------------
(* C3 *)

\* C3: a call with pos_diff in 33..31999 on an initialized instance sets
\* field to 0 and last_seq to seq, whatever field was.
C3_JumpResets ==
    (Stepped /\ PosDiff \in 33..31999) =>
        /\ field = Zero
        /\ U32Of(field) = <<0, 0>>
        /\ last_seq = seq_num
        /\ initialized

\* a jump past the window from a field that had bits set
C3_Witness ==
    /\ Stepped
    /\ PosDiff \in 33..31999
    /\ pre.field # {}
    /\ field = {}

----------------------------------------------------------------------------
(* C4 *)

\* C4: a call with pos_diff >= 32000 and neg_diff in 1..32 on an initialized
\* instance sets bit neg_diff-1 of field and leaves last_seq, initialized
\* and every other bit as they were.
C4_LateArrival ==
    (Stepped /\ PosDiff >= 32000 /\ NegDiff \in 1..32) =>
        /\ (NegDiff - 1) \in field
        /\ \A i \in BitPos \ {NegDiff - 1} : (i \in field) <=> (i \in pre.field)
        /\ field \subseteq BitPos
        /\ last_seq = pre.last_seq
        /\ initialized = pre.initialized

\* a late arrival that sets a bit that was clear, beside bits that were set
C4_Witness ==
    /\ Stepped
    /\ PosDiff >= 32000
    /\ NegDiff \in 2..32
    /\ pre.field # {}
    /\ (NegDiff - 1) \notin pre.field
    /\ (NegDiff - 1) \in field

----------------------------------------------------------------------------
(* C5 *)

\* C5: a call with pos_diff >= 32000 and neg_diff > 32 on an initialized
\* instance (pos_diff in 32000..65503) changes nothing.
C5_StaleDropped ==
    (Stepped /\ PosDiff >= 32000 /\ NegDiff > 32) =>
        /\ PosDiff \in 32000..65503
        /\ last_seq = pre.last_seq
        /\ field = pre.field
        /\ initialized = pre.initialized

\* a number 32000 ahead of last_seq is dropped, bit 0 of field being clear
C5_Witness ==
    /\ Stepped
    /\ PosDiff = 32000
    /\ pre.field # {}
    /\ 0 \notin pre.field
    /\ field = pre.field

----------------------------------------------------------------------------
(* C6 *)

\* C6: after the same calls moved by d (modulo 65536), the twin has the
\* same field and initialized, and its last_seq is the first instance's
\* plus d, modulo 65536.
C6_Translation ==
    calls >= 1 =>
        /\ twin.field = field
        /\ twin.last_seq = (last_seq + shift) % 65536
        /\ twin.initialized = initialized

\* the twin's run crossed from 65535 to 0 while the first instance's did
\* not, and bits are set
C6_Witness ==
    /\ calls >= 3
    /\ field # {}
    /\ twin.last_seq < shift
    /\ \A v \in seen : v <= last_seq
    /\ \E v \in seen : (v + shift) % 65536 > twin.last_seq

----------------------------------------------------------------------------
(* C7 *)

\* the member of chosen that is ahead of all the others
PermMax == CHOOSE m \in chosen : \A v \in chosen : Behind(m, v) <= 32

\* C7: once every member of the set has been delivered, in whatever order,
\* last_seq is the greatest member and bit (max - v - 1) of field is set
\* exactly for the other members v.
C7_OrderIndependent ==
    (chosen # {} /\ todo = {}) =>
        /\ last_seq = PermMax
        /\ field = {Behind(PermMax, v) - 1 : v \in chosen \ {PermMax}}
        /\ initialized

\* a set of at least three numbers across the 65535 -> 0 boundary, delivered
\* with the greatest neither first nor last
C7_Witness ==
    /\ Cardinality(chosen) >= 3
    /\ todo = {}
    /\ seq_num # last_seq
    /\ pre.last_seq = last_seq
    /\ \E v \in chosen : v > last_seq
    /\ \E v \in chosen : Behind(last_seq, v) = 32

----------------------------------------------------------------------------
(* C8 *)

\* (1 << k) - 1 for k in 0..32, as <<high half, low half>>
LowOnes(k) == IF k <= 16 THEN <<0, Pow2(k) - 1>>
              ELSE <<Pow2(k - 16) - 1, 65535>>

\* C8: after ack(0), ..., ack(k) with k < 32 on a default instance,
\* last_seq = k and field = (1 << k) - 1.
C8_MonotonicRun ==
    (start = 0 /\ calls \in 1..32) =>
        /\ last_seq = calls - 1
        /\ U32Of(field) = LowOnes(calls - 1)
        /\ field = 0 .. (calls - 2)

\* ack(0), ..., ack(31) gave 0x7FFFFFFF
C8_Witness ==
    /\ start = 0
    /\ calls = 32
    /\ last_seq = 31
    /\ U32Of(field) = <<32767, 65535>>

----------------------------------------------------------------------------
(* C9 *)

\* C9: after ack(0), ..., ack(32) on a default instance last_seq = 32 and
\* field = 0xFFFFFFFF, and each further ack of the next number keeps field
\* and moves last_seq on by one.
C9_WindowFull ==
    (start = 0 /\ calls >= 33) =>
        /\ last_seq = calls - 1
        /\ U32Of(field) = <<65535, 65535>>
        /\ field = BitPos

\* a further ack on the full window
C9_Witness ==
    /\ start = 0
    /\ calls > 33
    /\ pre.field = BitPos
    /\ pre.last_seq = calls - 2
    /\ field = BitPos

----------------------------------------------------------------------------
(* C10 *)

\* C10: the first ack(seq) on a default instance ends with last_seq = seq,
\* field = 0 and initialized = true.
C10_FreshInstance ==
    calls = 1 =>
        /\ last_seq = seq_num
        /\ field = Zero
        /\ U32Of(field) = <<0, 0>>
        /\ initialized = TRUE

\* the first call, with the greatest u16
C10_Witness ==
    /\ calls = 1
    /\ pre = Default
    /\ seq_num = 65535
    /\ last_seq = 65535

----------------------------------------------------------------------------
(* C11 *)

\* C11: a call ack(seq) made right after a call ack(seq) with the same
\* number, from whatever state the first of the two began in, changes
\* nothing: twice is the same as once.
C11_Idempotent ==
    (calls >= 2 /\ seq_num = prev_seq) =>
        /\ last_seq = pre.last_seq
        /\ field = pre.field
        /\ initialized = pre.initialized

\* the same late number given twice in a row, beside other set bits
C11_Witness ==
    /\ calls >= 3
    /\ seq_num = prev_seq
    /\ NegDiff \in 1..32
    /\ (NegDiff - 1) \in field
    /\ field # {NegDiff - 1}

----------------------------------------------------------------------------
(* C12 *)

\* C12: no call overflows: when line 37 is evaluated pos_diff - 1 does not
\* underflow and is a shift amount in 0..31, and when line 45 is evaluated
\* neg_diff - 1 does not underflow and is a shift amount in 0..31.
C12_NeverFails ==
    calls >= 1 =>
        /\ ~ack_overflows(pre, seq_num)
        /\ reaches_push_back(pre, seq_num) => (PosDiff - 1) \in 0..31
        /\ reaches_old_field(pre, seq_num) => (NegDiff - 1) \in 0..31

\* line 45 was evaluated with the greatest shift, 31
C12_Witness ==
    /\ calls >= 2
    /\ reaches_old_field(pre, seq_num)
    /\ NegDiff = 32
    /\ 31 \in field
    /\ 31 \notin pre.field

----------------------------------------------------------------------------
(* C13 *)

\* C13: the instance is uninitialized exactly while no call was made, the
\* first call initializes it whatever its number, and a call on an
\* initialized instance leaves it initialized.
C13_InitOnce ==
    /\ initialized <=> calls >= 1
    /\ calls = 0 => ~pre.initialized
    /\ calls = 1 => (~pre.initialized /\ initialized)
    /\ calls >= 2 => (pre.initialized /\ initialized)

\* still initialized after a jump that resets the field
C13_Witness ==
    /\ calls >= 2
    /\ pre.initialized
    /\ PosDiff \in 33..31999
    /\ pre.field # {}
    /\ initialized

----------------------------------------------------------------------------
(* C14 *)

\* C14: if bit i of field is set, the number (last_seq - (i+1)) mod 65536
\* was passed to an earlier ack call.
C14_Sound ==
    \A i \in field : i \in BitPos /\ SeqOfBit(i) \in seen

\* a forward shift over numbers never given, whose bits stay clear, from a
\* field with bits set
C14_Witness ==
    /\ Stepped
    /\ PosDiff \in 2..32
    /\ pre.field # {}
    /\ field # {}
    /\ \E i \in BitPos : i < PosDiff - 1 /\ i \notin field /\ SeqOfBit(i) \notin seen

----------------------------------------------------------------------------
(* C15 *)

\* C15: once initialized, last_seq is a number that was passed to ack; a
\* call on an initialized instance with (seq - last_seq) mod 65536 in
\* 1..31999 sets last_seq to seq, and any other call leaves last_seq as it
\* was.
C15_LastSeqForward ==
    /\ initialized => last_seq \in seen
    /\ Stepped =>
          IF PosDiff \in 1..31999
          THEN last_seq = seq_num /\ last_seq # pre.last_seq
          ELSE last_seq = pre.last_seq

\* a call 32000 ahead of last_seq left last_seq alone, after one 31999
\* ahead had moved it
C15_Witness ==
    /\ calls >= 3
    /\ Stepped
    /\ PosDiff = 32000
    /\ last_seq = pre.last_seq
    /\ (pre.last_seq + 65536 - 31999) % 65536 \in seen

----------------------------------------------------------------------------
(* C16 *)

\* the numbers acknowledged when the latest call began
AckedBefore ==
    {pre.last_seq} \cup {(pre.last_seq + 65536 - (i + 1)) % 65536 : i \in pre.field}

\* C16: after a call on an initialized instance, every number that was
\* acknowledged before it and is 1..32 behind the new last_seq has its bit
\* set, and one that equals the new last_seq is last_seq.
C16_Retained ==
    Stepped =>
        \A v \in AckedBefore :
            /\ Behind(last_seq, v) \in 1..32 => (Behind(last_seq, v) - 1) \in field
            /\ Behind(last_seq, v) = 0 => last_seq = v

\* a forward shift that keeps the old last_seq and an old bit, and loses
\* another old bit that fell more than 32 behind
C16_Witness ==
    /\ Stepped
    /\ PosDiff \in 2..31
    /\ \E i, j \in pre.field : i + PosDiff <= 31 /\ j + PosDiff > 31
    /\ \E v \in AckedBefore : Behind(last_seq, v) > 32
    /\ (PosDiff - 1) \in field

----------------------------------------------------------------------------
(* C17 *)

\* C17: on an initialized instance, ack(seq) with seq = last_seq, or with
\* seq 1..32 behind last_seq and its bit already set, changes nothing.
C17_DuplicateNoOp ==
    (Stepped /\ (seq_num = pre.last_seq
                    \/ (NegDiff \in 1..32 /\ (NegDiff - 1) \in pre.field))) =>
        /\ last_seq = pre.last_seq
        /\ field = pre.field
        /\ initialized = pre.initialized

\* a number in the window whose bit was set arrived again, beside other
\* set bits
C17_Witness ==
    /\ Stepped
    /\ NegDiff \in 1..32
    /\ (NegDiff - 1) \in pre.field
    /\ pre.field # {NegDiff - 1}
    /\ field = pre.field

----------------------------------------------------------------------------
(* C19 *)

\* C19: while initialized is false, field = 0 and last_seq = 0.
C19_UninitializedDefault ==
    ~initialized =>
        /\ field = Zero
        /\ U32Of(field) = <<0, 0>>
        /\ last_seq = 0

\* the default instance, before any call
C19_Witness ==
    /\ ~initialized
    /\ calls = 0
    /\ last_seq = 0
    /\ field = {}

----------------------------------------------------------------------------
(* C18 *)

\* the latest call was a call of the stream and was accepted as newer
Accepted ==
    /\ stream # {}
    /\ calls >= 2
    /\ PosDiff \in 1..31999
    /\ last_seq = seq_num

\* C18: a caller that keeps giving consecutive numbers to an initialized
\* instance eventually has one accepted as newer, and once one is accepted
\* every later one is: last_seq is the number just given after every call
\* from then on.
C18_NoLockOut ==
    /\ <>[]Accepted
    /\ [][Accepted => Accepted']_vars

\* the first number accepted from a stream that began behind last_seq or
\* 32000 or more ahead of it: the numbers before it were dropped as stale,
\* then set the 32 bits of the window, then repeated last_seq
C18_Witness ==
    /\ Accepted
    /\ PosDiff = 1
    /\ prev_seq = pre.last_seq
    /\ pre.last_seq \in StreamLasts
    /\ pre.field = BitPos
    /\ field = BitPos

====
